---- MODULE Spec2Model ----
(***************************************************************************)
(* Self-update subsystem of the calculator CLI (package updater).          *)
(*                                                                         *)
(* Texts (version strings, environment values) are sequences of one-       *)
(* character strings, so that parsing is modelled by what the Go code      *)
(* does to the characters (TrimPrefix, Contains, TrimSuffix, Split, Atoi). *)
(* A nil pointer is the empty sequence, a non-nil pointer to x is <<x>>.   *)
(***************************************************************************)
EXTENDS Integers, Sequences, FiniteSets, TLC

(***************************************************************************)
(* Go string helpers (package strings / strconv)                           *)
(***************************************************************************)
Digits == <<"0", "1", "2", "3", "4", "5", "6", "7", "8", "9">>

UpperCase == <<"A", "B", "E", "F", "H", "L", "N", "O", "P", "S", "T", "U", "Y">>

LowerCase == <<"a", "b", "e", "f", "h", "l", "n", "o", "p", "s", "t", "u", "y">>

WhiteSpace == {" ", "\t", "\n"}

\* strings.HasPrefix
HasPrefix(s, p) == Len(s) >= Len(p) /\ SubSeq(s, 1, Len(p)) = p

\* strings.HasSuffix
HasSuffix(s, p) == Len(s) >= Len(p) /\ SubSeq(s, Len(s) - Len(p) + 1, Len(s)) = p

\* strings.TrimPrefix: s without the leading p, or s itself
TrimPrefix(s, p) == IF HasPrefix(s, p) THEN SubSeq(s, Len(p) + 1, Len(s)) ELSE s

\* strings.TrimSuffix: s without the trailing p, or s itself
TrimSuffix(s, p) == IF HasSuffix(s, p) THEN SubSeq(s, 1, Len(s) - Len(p)) ELSE s

\* strings.Contains: p occurs somewhere in s
Contains(s, p) == \E i \in 1..(Len(s) - Len(p) + 1) : SubSeq(s, i, i + Len(p) - 1) = p

\* strings.Split on a one-character separator
RECURSIVE Split(_, _)
Split(s, sep) ==
    IF \E i \in 1..Len(s) : s[i] = sep
    THEN LET i == CHOOSE k \in 1..Len(s) : s[k] = sep /\ \A j \in 1..(k - 1) : s[j] # sep
         IN  <<SubSeq(s, 1, i - 1)>> \o Split(SubSeq(s, i + 1, Len(s)), sep)
    ELSE <<s>>

\* strings.ToLower on the letters of the modelled alphabet
ToLowerChar(c) ==
    IF \E i \in 1..Len(UpperCase) : UpperCase[i] = c
    THEN LowerCase[CHOOSE i \in 1..Len(UpperCase) : UpperCase[i] = c]
    ELSE c

ToLower(s) == [i \in 1..Len(s) |-> ToLowerChar(s[i])]

\* strings.TrimSpace
RECURSIVE TrimSpace(_)
TrimSpace(s) ==
    IF s = <<>> THEN s
    ELSE IF s[1] \in WhiteSpace THEN TrimSpace(Tail(s))
    ELSE IF s[Len(s)] \in WhiteSpace THEN TrimSpace(SubSeq(s, 1, Len(s) - 1))
    ELSE s

IsDigit(c) == \E i \in 1..10 : Digits[i] = c

DigitVal(c) == (CHOOSE i \in 1..10 : Digits[i] = c) - 1

RECURSIVE DecimalValue(_)
DecimalValue(ds) ==
    IF ds = <<>> THEN 0
    ELSE 10 * DecimalValue(SubSeq(ds, 1, Len(ds) - 1)) + DigitVal(ds[Len(ds)])

\* strconv.Atoi: optional sign, then one or more decimal digits
\* (texts are short, so the int range is never exceeded)
Atoi(s) ==
    LET signed == s # <<>> /\ s[1] \in {"+", "-"}
        ds     == IF signed THEN Tail(s) ELSE s
        ok     == ds # <<>> /\ \A i \in 1..Len(ds) : IsDigit(ds[i])
    IN  IF ~ok THEN [err |-> TRUE, val |-> 0]
        ELSE [err |-> FALSE,
              val |-> IF signed /\ s[1] = "-" THEN 0 - DecimalValue(ds) ELSE DecimalValue(ds)]

(***************************************************************************)
(* Semantic versions                                                       *)
(***************************************************************************)
dashAlpha == <<"-", "a", "l", "p", "h", "a">>

dashBeta == <<"-", "b", "e", "t", "a">>

\* the error return of ParseSemanticVersion: (nil, err)
ParseError == [err |-> TRUE, sv |-> <<>>]

\* a parser that ignores the error of the patch conversion and keeps the
\* zero value
ParseSemanticVersion_IgnoresPatchError(version) ==
    LET v0     == TrimPrefix(version, <<"v">>)
        alpha  == Contains(v0, dashAlpha)
        beta   == ~alpha /\ Contains(v0, dashBeta)
        v1     == IF alpha THEN TrimSuffix(v0, dashAlpha)
                  ELSE IF beta THEN TrimSuffix(v0, dashBeta)
                  ELSE v0
        parts  == Split(v1, ".")
    IN  IF Len(parts) # 3 THEN ParseError
        ELSE LET major == Atoi(parts[1])
                 minor == Atoi(parts[2])
                 patch == Atoi(parts[3])
             IN  IF major.err THEN ParseError
                 ELSE IF minor.err THEN ParseError
                 ELSE [err |-> FALSE,
                       sv  |-> <<[Major      |-> major.val,
                                  Minor      |-> minor.val,
                                  Patch      |-> patch.val,
                                  PreRelease |-> IF alpha THEN "alpha"
                                                 ELSE IF beta THEN "beta" ELSE "",
                                  IsAlpha    |-> alpha,
                                  IsBeta     |-> beta]>>]

\* ParseSemanticVersion(version): (nil, err) or (sv, nil)
ParseSemanticVersion(version) ==
    LET v0     == TrimPrefix(version, <<"v">>)
        alpha  == Contains(v0, dashAlpha)
        beta   == ~alpha /\ Contains(v0, dashBeta)
        v1     == IF alpha THEN TrimSuffix(v0, dashAlpha)
                  ELSE IF beta THEN TrimSuffix(v0, dashBeta)
                  ELSE v0
        parts  == Split(v1, ".")
    IN  IF Len(parts) # 3 THEN ParseError
        ELSE LET major == Atoi(parts[1])
                 minor == Atoi(parts[2])
                 patch == Atoi(parts[3])
             IN  IF major.err THEN ParseError
                 ELSE IF minor.err THEN ParseError
                 ELSE IF patch.err THEN ParseError
                 ELSE [err |-> FALSE,
                       sv  |-> <<[Major      |-> major.val,
                                  Minor      |-> minor.val,
                                  Patch      |-> patch.val,
                                  PreRelease |-> IF alpha THEN "alpha"
                                                 ELSE IF beta THEN "beta" ELSE "",
                                  IsAlpha    |-> alpha,
                                  IsBeta     |-> beta]>>]

\* IsNewerThan without the ordering of beta above alpha
IsNewerThan_NoBetaOverAlpha(sv, other) ==
    IF sv.Major # other.Major THEN sv.Major > other.Major
    ELSE IF sv.Minor # other.Minor THEN sv.Minor > other.Minor
    ELSE IF sv.Patch # other.Patch THEN sv.Patch > other.Patch
    ELSE IF sv.PreRelease = "" /\ other.PreRelease # "" THEN TRUE
    ELSE FALSE

\* IsNewerThan deciding stable against pre-release before the patch number
IsNewerThan_TagBeforePatch(sv, other) ==
    IF sv.Major # other.Major THEN sv.Major > other.Major
    ELSE IF sv.Minor # other.Minor THEN sv.Minor > other.Minor
    ELSE IF sv.PreRelease = "" /\ other.PreRelease # "" THEN TRUE
    ELSE IF sv.PreRelease # "" /\ other.PreRelease = "" THEN FALSE
    ELSE IF sv.Patch # other.Patch THEN sv.Patch > other.Patch
    ELSE IF sv.PreRelease # "" /\ other.PreRelease # "" /\ sv.IsBeta /\ other.IsAlpha THEN TRUE
    ELSE FALSE

\* sv.IsNewerThan(other)
IsNewerThan(sv, other) ==
    IF sv.Major # other.Major THEN sv.Major > other.Major
    ELSE IF sv.Minor # other.Minor THEN sv.Minor > other.Minor
    ELSE IF sv.Patch # other.Patch THEN sv.Patch > other.Patch
    ELSE IF sv.PreRelease = "" /\ other.PreRelease # "" THEN TRUE
    ELSE IF sv.PreRelease # "" /\ other.PreRelease = "" THEN FALSE
    ELSE IF sv.PreRelease # "" /\ other.PreRelease # "" /\ sv.IsBeta /\ other.IsAlpha THEN TRUE
    ELSE FALSE

(***************************************************************************)
(* Releases, manifests and the process environment                         *)
(***************************************************************************)
\* runtime.GOOS of the running build
GOOS == "linux"

\* longest manifest the model fetches
MaxReleases == 2

Ver(major, minor, patch) == major \o <<".">> \o minor \o <<".">> \o patch

Release(version, isAlpha, isBeta, urls) ==
    [Version |-> version, URLs |-> urls, IsAlpha |-> isAlpha, IsBeta |-> isBeta]

LinuxURLs == [linux |-> "https://example.com/calc-linux"]

WindowsURLs == [windows |-> "https://example.com/calc.exe"]

\* the catalog entries a published version.json may hold: consistent entries
\* of every channel, entries whose flags disagree with the version suffix,
\* an entry with malformed version text, one without a Linux binary, and
\* one version published twice, with and without the v prefix
Releases ==
    { Release(<<"v">> \o Ver(<<"1">>, <<"0">>, <<"2">>), FALSE, FALSE, LinuxURLs),
      Release(<<"v">> \o Ver(<<"1">>, <<"0">>, <<"1", "0">>), FALSE, FALSE, LinuxURLs),
      Release(<<"v">> \o Ver(<<"1">>, <<"0">>, <<"2">>) \o dashAlpha, TRUE, FALSE, LinuxURLs),
      Release(<<"v">> \o Ver(<<"1">>, <<"0">>, <<"1", "0">>) \o dashAlpha, TRUE, FALSE, LinuxURLs),
      Release(<<"v">> \o Ver(<<"1">>, <<"0">>, <<"2">>) \o dashBeta, FALSE, TRUE, LinuxURLs),
      Release(<<"v">> \o Ver(<<"1">>, <<"0">>, <<"1", "0">>) \o dashBeta, FALSE, TRUE, LinuxURLs),
      Release(<<"v">> \o Ver(<<"2">>, <<"0">>, <<"0">>) \o dashBeta, FALSE, FALSE, LinuxURLs),
      Release(<<"v">> \o Ver(<<"1">>, <<"0">>, <<"3">>) \o dashBeta, TRUE, TRUE, LinuxURLs),
      Release(<<"v">> \o Ver(<<"1">>, <<"x">>, <<"0">>), FALSE, FALSE, LinuxURLs),
      Release(<<"v">> \o Ver(<<"1">>, <<"0">>, <<"0">>), FALSE, FALSE, LinuxURLs),
      Release(Ver(<<"0">>, <<"9">>, <<"0">>), FALSE, FALSE, LinuxURLs),
      Release(Ver(<<"1">>, <<"0">>, <<"2">>), FALSE, FALSE, LinuxURLs),
      Release(<<"v">> \o Ver(<<"1">>, <<"1">>, <<"0">>), FALSE, FALSE, WindowsURLs) }

\* every []Release of at most MaxReleases entries
Manifests == UNION { [1..n -> Releases] : n \in 0..MaxReleases }

\* values of the version variable the binary may be built with;
\* 0.0.0-local is the default of an untagged build
CurrentVersions ==
    { <<"v">> \o Ver(<<"1">>, <<"0">>, <<"0">>),
      <<"v">> \o Ver(<<"1">>, <<"0">>, <<"0">>) \o dashAlpha,
      <<"v">> \o Ver(<<"1">>, <<"0">>, <<"0">>) \o dashBeta,
      Ver(<<"1">>, <<"0">>, <<"1", "0">>),
      Ver(<<"0">>, <<"0">>, <<"0">>) \o <<"-", "l", "o", "c", "a", "l">> }

\* values of CALC_ALLOW_ALPHA / CALC_ALLOW_BETA; unset reads as the empty string
EnvValues == { <<>>, <<"1">> }

Environments == [{"CALC_ALLOW_ALPHA", "CALC_ALLOW_BETA"} -> EnvValues]

\* a test that compares with "false" in lower case only
isEnvVarTrue_NoToLower(e, envVar) ==
    LET value == TrimSpace(e[envVar])
    IN  value # <<>> /\ value # <<"0">> /\ value # <<"f", "a", "l", "s", "e">>

\* isEnvVarTrue(envVar), reading the environment e
isEnvVarTrue(e, envVar) ==
    LET value == ToLower(TrimSpace(e[envVar]))
    IN  value # <<>> /\ value # <<"0">> /\ value # <<"f", "a", "l", "s", "e">>

(***************************************************************************)
(* Eligibility resolver                                                    *)
(***************************************************************************)
\* "Determine current channel": the channel of a parsed version
currentChannelOf(semVer) ==
    IF semVer.IsAlpha THEN "alpha" ELSE IF semVer.IsBeta THEN "beta" ELSE "stable"

\* a channel reading in which isBeta wins when both flags are set
releaseChannelOf_BetaWins(release) ==
    IF release.IsBeta THEN "beta" ELSE IF release.IsAlpha THEN "alpha" ELSE "stable"

\* "Determine release channel": the channel of a manifest entry, from its flags
releaseChannelOf(release) ==
    IF release.IsAlpha THEN "alpha" ELSE IF release.IsBeta THEN "beta" ELSE "stable"

\* the switch without the permission flags
isEligible_NoPermission(currentChannel, releaseChannel, allowAlpha, allowBeta) ==
    currentChannel = releaseChannel

\* "Apply channel isolation rules": the switch of FindLatestEligibleRelease
isEligible(currentChannel, releaseChannel, allowAlpha, allowBeta) ==
    IF currentChannel = "alpha" THEN releaseChannel = "alpha" /\ allowAlpha
    ELSE IF currentChannel = "beta" THEN releaseChannel = "beta" /\ allowBeta
    ELSE IF currentChannel = "stable" THEN releaseChannel = "stable"
    ELSE FALSE

\* first match wins: a later, greater candidate never replaces the first one
replacesLatest_FirstMatch(latest, releaseSemVer) == latest = <<>>

\* "Skip if this release is not newer than current version", without the test
newerThanCurrent_Any(releaseSemVer, currentSemVer) == TRUE

\* "Skip if this release is not newer than current version"
newerThanCurrent(releaseSemVer, currentSemVer) == IsNewerThan(releaseSemVer, currentSemVer)

\* every candidate replaces the one held, so the last one wins
replacesLatest_LastMatch(latest, releaseSemVer) == TRUE

\* the running-maximum test both resolvers apply to a candidate:
\* latest == nil || releaseSemVer.IsNewerThan(latestSemVer)
replacesLatest(latest, releaseSemVer) ==
    latest = <<>> \/ IsNewerThan(releaseSemVer, latest[1].semVer)

\* an unparsable entry throws away the candidate found so far
afterParseError_DropsCandidate(previous) == <<>>

\* "Warning: Could not parse release version ...; continue": the scan goes
\* on with the candidate it held before the entry
afterParseError(previous) == previous

\* FindLatestEligibleRelease(releases, currentVersion), reading the environment e
FindLatestEligibleRelease(e, releases, currentVersion) ==
    LET allowAlpha == isEnvVarTrue(e, "CALC_ALLOW_ALPHA")
        allowBeta  == isEnvVarTrue(e, "CALC_ALLOW_BETA")
        current    == ParseSemanticVersion(currentVersion)
    IN  IF current.err THEN <<>>
        ELSE LET currentSemVer  == current.sv[1]
                 currentChannel == currentChannelOf(currentSemVer)
                 \* latestEligible / latestSemVer after the first i entries
                 scan[i \in 0..Len(releases)] ==
                     IF i = 0 THEN <<>>
                     ELSE LET release == releases[i]
                              parsed  == ParseSemanticVersion(release.Version)
                          IN  IF parsed.err THEN afterParseError(scan[i - 1])
                              ELSE IF ~newerThanCurrent(parsed.sv[1], currentSemVer) THEN scan[i - 1]
                              ELSE IF ~isEligible(currentChannel, releaseChannelOf(release),
                                                  allowAlpha, allowBeta) THEN scan[i - 1]
                              ELSE IF replacesLatest(scan[i - 1], parsed.sv[1])
                                   THEN <<[release |-> release, semVer |-> parsed.sv[1]]>>
                              ELSE scan[i - 1]
                 final == scan[Len(releases)]
             IN  IF final = <<>> THEN <<>> ELSE <<final[1].release>>

\* a result that starts out gated
NoResult_Gated ==
    [HasUpdate |-> FALSE, LatestRelease |-> <<>>, IsGated |-> TRUE,
     RequiredEnvVar |-> "", CurrentChannel |-> ""]

\* the zero UpdateCheckResult
NoResult ==
    [HasUpdate |-> FALSE, LatestRelease |-> <<>>, IsGated |-> FALSE,
     RequiredEnvVar |-> "", CurrentChannel |-> ""]

\* "Determine current channel": the env var that gates the channel
requiredEnvVarOf(semVer) ==
    IF semVer.IsAlpha THEN "CALC_ALLOW_ALPHA" ELSE IF semVer.IsBeta THEN "CALC_ALLOW_BETA" ELSE ""

\* gating that accepts the flag of either pre-release channel
isGatedFor_AnyFlag(currentChannel, allowAlpha, allowBeta) ==
    IF currentChannel = "alpha" \/ currentChannel = "beta" THEN ~(allowAlpha \/ allowBeta)
    ELSE FALSE

\* a result that is never gated
isGatedFor_Never(currentChannel, allowAlpha, allowBeta) == FALSE

\* "Check if it's gated by environment variables"
isGatedFor(currentChannel, allowAlpha, allowBeta) ==
    IF currentChannel = "alpha" THEN ~allowAlpha
    ELSE IF currentChannel = "beta" THEN ~allowBeta
    ELSE FALSE

\* CheckForUpdatesWithResult(releases, currentVersion), reading the environment e
CheckForUpdatesWithResult(e, releases, currentVersion) ==
    LET current == ParseSemanticVersion(currentVersion)
    IN  IF current.err THEN NoResult
        ELSE LET currentSemVer  == current.sv[1]
                 currentChannel == currentChannelOf(currentSemVer)
                 requiredEnvVar == requiredEnvVarOf(currentSemVer)
                 allowAlpha     == isEnvVarTrue(e, "CALC_ALLOW_ALPHA")
                 allowBeta      == isEnvVarTrue(e, "CALC_ALLOW_BETA")
                 \* latestInChannel / latestInChannelSemVer after the first i entries
                 scan[i \in 0..Len(releases)] ==
                     IF i = 0 THEN <<>>
                     ELSE LET release == releases[i]
                              parsed  == ParseSemanticVersion(release.Version)
                          IN  IF parsed.err THEN afterParseError(scan[i - 1])
                              ELSE IF ~newerThanCurrent(parsed.sv[1], currentSemVer) THEN scan[i - 1]
                              ELSE IF releaseChannelOf(release) = currentChannel
                                      /\ replacesLatest(scan[i - 1], parsed.sv[1])
                                   THEN <<[release |-> release, semVer |-> parsed.sv[1]]>>
                              ELSE scan[i - 1]
                 latestInChannel == scan[Len(releases)]
             IN  IF latestInChannel # <<>>
                 THEN [HasUpdate      |-> TRUE,
                       LatestRelease  |-> <<latestInChannel[1].release>>,
                       IsGated        |-> isGatedFor(currentChannel, allowAlpha, allowBeta),
                       RequiredEnvVar |-> requiredEnvVar,
                       CurrentChannel |-> currentChannel]
                 ELSE [HasUpdate      |-> FALSE,
                       LatestRelease  |-> <<>>,
                       IsGated        |-> FALSE,
                       RequiredEnvVar |-> requiredEnvVar,
                       CurrentChannel |-> currentChannel]

(***************************************************************************)
(* File system, download responses                                         *)
(***************************************************************************)
\* os.Executable() of the running process
execPath == <<"/usr/local/bin/calc">>

\* downloading straight onto the executable
tmpPathOf_InPlace(path) == path

\* tmpPath := execPath + ".new"
tmpPathOf(path) == path \o <<".new">>

\* backupPath := execPath + "." + currentVersion + ".bak"
backupPathOf(path, version) == path \o <<".">> \o version \o <<".bak">>

\* writeTemporaryFile rejects a download of fewer bytes than this
MinBinarySize == 1024

ELF == <<127, 69, 76, 70>>

MachO32 == <<254, 237, 250, 206>>

MachO32Rev == <<206, 250, 237, 254>>

MachO64 == <<254, 237, 250, 207>>

MachO64Rev == <<207, 250, 237, 254>>

PE == <<77, 90, 144, 0>>

\* "<!DO", the start of an HTML error page
HTML == <<60, 33, 68, 79>>

\* the executable installed before the update check
OrigExecutable == [header |-> ELF, size |-> 4096, build |-> "installed", mode |-> "0755"]

\* bodies a download server may send: header holds the first bytes,
\* size the length of the whole body
Bodies ==
    { [header |-> ELF, size |-> 2048],
      [header |-> ELF, size |-> 1023],
      [header |-> PE, size |-> 1024],
      [header |-> HTML, size |-> 500],
      [header |-> HTML, size |-> 4096] }

ContentTypes == { "application/octet-stream", "text/plain", "text/html", "" }

\* responses of http.Get(url) that carry a status
Responses ==
    [status : {200}, contentType : ContentTypes, body : Bodies]
        \cup [status : {404}, contentType : {"text/html"}, body : {[header |-> HTML, size |-> 500]}]

\* a file system is a function from the paths that exist to their files
WriteFile(fs, path, file) ==
    [p \in DOMAIN fs \cup {path} |-> IF p = path THEN file ELSE fs[p]]

\* os.Remove of a file this process created
RemoveFile(fs, path) == [p \in DOMAIN fs \ {path} |-> fs[p]]

\* os.Rename(from, to): to is replaced atomically, from disappears
RenameFile(fs, from, to) == RemoveFile(WriteFile(fs, to, fs[from]), from)

\* DownloadBinary without the deferred cleanup
cleanupTmp_Missing(fs, path) == fs

\* the deferred cleanup of DownloadBinary: remove the temp file if it exists
cleanupTmp(fs, path) == IF tmpPathOf(path) \in DOMAIN fs THEN RemoveFile(fs, tmpPathOf(path)) ELSE fs

checkELF(header) ==
    Len(header) >= 4 /\ header[1] = 127 /\ header[2] = 69 /\ header[3] = 76 /\ header[4] = 70

checkMachO(header) ==
    IF Len(header) < 4 THEN FALSE
    ELSE IF (header[1] = 254 /\ header[2] = 237 /\ header[3] = 250 /\ header[4] = 206)
            \/ (header[1] = 206 /\ header[2] = 250 /\ header[3] = 237 /\ header[4] = 254) THEN TRUE
    ELSE IF (header[1] = 254 /\ header[2] = 237 /\ header[3] = 250 /\ header[4] = 207)
            \/ (header[1] = 207 /\ header[2] = 250 /\ header[3] = 237 /\ header[4] = 254) THEN TRUE
    ELSE FALSE

\* a PE test that passes on Windows only
checkPE_WindowsOnly(header) ==
    GOOS = "windows" /\ Len(header) >= 2 /\ header[1] = 77 /\ header[2] = 90

checkPE(header) == Len(header) >= 2 /\ header[1] = 77 /\ header[2] = 90

\* IsValidExecutable(filepath): openOk is the outcome of os.Open;
\* file.Read fills at most 16 bytes and n is the number read
IsValidExecutable(fs, path, openOk) ==
    IF ~openOk \/ path \notin DOMAIN fs THEN FALSE
    ELSE LET file == fs[path]
             n    == IF file.size < 16 THEN file.size ELSE 16
         IN  IF n = 0 \/ n < 4 THEN FALSE
             ELSE checkELF(file.header) \/ checkMachO(file.header) \/ checkPE(file.header)

ValidateDownloadedFile(fs, path, openOk) == IsValidExecutable(fs, path, openOk)

\* a content-type test that rejects an HTML page
validateContentType_RejectsHtml(contentType) == contentType # "text/html"

\* validateContentType(contentType): only warns, never rejects
validateContentType(contentType) == TRUE

(***************************************************************************)
(* State                                                                   *)
(***************************************************************************)
VARIABLES
    pc,             \* position of the process
    currentVersion, \* the version variable of the running build
    env,            \* the process environment
    manifest,       \* *VersionManifest returned by FetchVersionManifest (<<>> is nil)
    fetchErr,       \* error returned by FetchVersionManifest ("" is nil)
    result,         \* UpdateCheckResult of CheckForUpdatesWithResult
    latest,         \* *Release returned by FindLatestEligibleRelease
    answer,         \* the line read by promptAndUpdate
    msgs,           \* what was printed, in order
    files,          \* the file system beside the executable
    resp,           \* response of the binary download (<<>> before the GET)
    passed,         \* stages of DownloadBinary passed so far, in order
    renamed,        \* os.Rename onto the executable was attempted
    va, vb,         \* two version texts under comparison
    pa, pb,         \* their parse results
    cmp,            \* record of the IsNewerThan outcomes for pa, pb
    ret             \* what a function called on its own returned (<<>> before the call)

vars == <<pc, currentVersion, env, manifest, fetchErr, result, latest, answer, msgs,
          files, resp, passed, renamed, va, vb, pa, pb, cmp, ret>>

resolverVars == <<manifest, fetchErr, result, latest, answer>>

installVars == <<files, resp, passed, renamed>>

versionVars == <<va, vb, pa, pb, cmp, ret>>

\* lines the user may type at the prompt
Answers == { <<"y">>, <<"Y">>, <<"y", "e", "s">>, <<"Y", "e", "s">>,
             <<"n">>, <<>>, <<"Y", "E", "S">> }

Init ==
    /\ pc = "start"
    /\ currentVersion \in CurrentVersions
    /\ env \in Environments
    /\ manifest = <<>>
    /\ fetchErr = ""
    /\ result = NoResult
    /\ latest = <<>>
    /\ answer = <<>>
    /\ msgs = <<>>
    /\ files = [p \in {execPath} |-> OrigExecutable]
    /\ resp = <<>>
    /\ passed = <<>>
    /\ renamed = FALSE
    /\ va = <<>> /\ vb = <<>> /\ pa = ParseError /\ pb = ParseError
    /\ cmp = [done |-> FALSE, ab |-> FALSE, ba |-> FALSE]
    /\ ret = <<>>

(***************************************************************************)
(* Update orchestrator                                                     *)
(***************************************************************************)
\* FetchVersionManifest(): the outcomes of the manifest GET
FetchVersionManifest ==
    /\ pc = "start"
    /\ \E outcome \in {"network", "error", "status", "malformed", "ok"} :
         \E releases \in Manifests :
           /\ outcome # "ok" => releases = <<>>
           /\ IF outcome = "network"
              THEN /\ manifest' = <<>>
                   /\ fetchErr' = ""
                   /\ msgs' = Append(msgs, "no_internet")
              ELSE IF outcome = "error"
              THEN manifest' = <<>> /\ fetchErr' = "no manifest found" /\ msgs' = msgs
              ELSE IF outcome = "status"
              THEN manifest' = <<>> /\ fetchErr' = "no manifest found (status code)" /\ msgs' = msgs
              ELSE IF outcome = "malformed"
              THEN manifest' = <<>> /\ fetchErr' = "malformed manifest" /\ msgs' = msgs
              ELSE IF Len(releases) = 0
              THEN manifest' = <<>> /\ fetchErr' = "no releases found" /\ msgs' = msgs
              ELSE manifest' = <<releases>> /\ fetchErr' = "" /\ msgs' = msgs
    /\ pc' = "fetched"
    /\ UNCHANGED <<currentVersion, env, result, latest, answer>>
    /\ UNCHANGED installVars
    /\ UNCHANGED versionVars

\* CheckForUpdate: err != nil, or manifest == nil: return to main
FetchFailed ==
    /\ pc = "fetched"
    /\ fetchErr # "" \/ manifest = <<>>
    /\ msgs' = IF fetchErr # "" THEN Append(msgs, "warning") ELSE msgs
    /\ pc' = "repl"
    /\ UNCHANGED <<currentVersion, env, manifest, fetchErr, result, latest, answer>>
    /\ UNCHANGED installVars
    /\ UNCHANGED versionVars

\* a CheckForUpdate that tests only err and goes on without a manifest
Resolve_NoNilCheck ==
    /\ pc = "fetched"
    /\ fetchErr = ""
    /\ result' = CheckForUpdatesWithResult(env, IF manifest = <<>> THEN <<>> ELSE manifest[1],
                                           currentVersion)
    /\ pc' = "resolved"
    /\ UNCHANGED <<currentVersion, env, manifest, fetchErr, latest, answer, msgs>>
    /\ UNCHANGED installVars
    /\ UNCHANGED versionVars

\* a resolver that removes the first entry from the slice it was given
Resolve_ConsumesManifest ==
    /\ pc = "fetched"
    /\ fetchErr = "" /\ manifest # <<>>
    /\ result' = CheckForUpdatesWithResult(env, manifest[1], currentVersion)
    /\ manifest' = <<Tail(manifest[1])>>
    /\ pc' = "resolved"
    /\ UNCHANGED <<currentVersion, env, fetchErr, latest, answer, msgs>>
    /\ UNCHANGED installVars
    /\ UNCHANGED versionVars

\* CheckForUpdate: result := CheckForUpdatesWithResult(manifest.Releases, currentVersion)
Resolve ==
    /\ pc = "fetched"
    /\ fetchErr = "" /\ manifest # <<>>
    /\ result' = CheckForUpdatesWithResult(env, manifest[1], currentVersion)
    /\ pc' = "resolved"
    /\ UNCHANGED <<currentVersion, env, manifest, fetchErr, latest, answer, msgs>>
    /\ UNCHANGED installVars
    /\ UNCHANGED versionVars

\* CheckForUpdatesWithResult called once more by the holder of the manifest,
\* with the same releases and current version
ResolveAgain ==
    /\ pc = "resolved"
    /\ result' = CheckForUpdatesWithResult(env, manifest[1], currentVersion)
    /\ pc' = "rechecked"
    /\ UNCHANGED <<currentVersion, env, manifest, fetchErr, latest, answer, msgs>>
    /\ UNCHANGED installVars
    /\ UNCHANGED versionVars

\* CheckForUpdates: latestRelease := FindLatestEligibleRelease(manifest.Releases, currentVersion)
CheckForUpdates ==
    /\ pc = "fetched"
    /\ fetchErr = "" /\ manifest # <<>>
    /\ latest' = FindLatestEligibleRelease(env, manifest[1], currentVersion)
    /\ pc' = "found"
    /\ UNCHANGED <<currentVersion, env, manifest, fetchErr, result, answer, msgs>>
    /\ UNCHANGED installVars
    /\ UNCHANGED versionVars

\* CheckForUpdate: !result.HasUpdate
UpToDate ==
    /\ pc = "resolved"
    /\ ~result.HasUpdate
    /\ msgs' = Append(msgs, "up_to_date")
    /\ pc' = "repl"
    /\ UNCHANGED <<currentVersion, env, manifest, fetchErr, result, latest, answer>>
    /\ UNCHANGED installVars
    /\ UNCHANGED versionVars

\* CheckForUpdate: result.IsGated: print how to unlock the channel and return
GatedMessage ==
    /\ pc = "resolved"
    /\ result.HasUpdate /\ result.IsGated
    /\ msgs' = Append(msgs, "gated")
    /\ pc' = "repl"
    /\ UNCHANGED <<currentVersion, env, manifest, fetchErr, result, latest, answer>>
    /\ UNCHANGED installVars
    /\ UNCHANGED versionVars

\* a prompt where the empty line counts as yes
YesAnswers_EmptyIsYes ==
    { <<"y">>, <<"Y">>, <<"y", "e", "s">>, <<"Y", "e", "s">>, <<>> }

\* input == "y" || input == "Y" || input == "yes" || input == "Yes"
YesAnswers == { <<"y">>, <<"Y">>, <<"y", "e", "s">>, <<"Y", "e", "s">> }

\* promptAndUpdate(*result.LatestRelease, currentVersion, buildTime):
\* only the release is passed on, the manifest is no longer referenced
promptAndUpdate ==
    /\ pc = "resolved"
    /\ result.HasUpdate /\ ~result.IsGated
    /\ \E input \in Answers :
         /\ answer' = input
         /\ IF input \in YesAnswers
            THEN msgs' = msgs \o <<"prompt", "updating">> /\ pc' = "update"
            ELSE msgs' = msgs \o <<"prompt", "cancelled">> /\ pc' = "repl"
    /\ manifest' = <<>>
    /\ UNCHANGED <<currentVersion, env, fetchErr, result, latest>>
    /\ UNCHANGED installVars
    /\ UNCHANGED versionVars

(***************************************************************************)
(* Binary acquisition pipeline                                             *)
(***************************************************************************)
\* a copy that leaves the destination with the default mode
CopyFile_WithoutMode(fs, src, dst, outcome) ==
    IF outcome = "open_failed" \/ src \notin DOMAIN fs THEN [err |-> TRUE, fs |-> fs]
    ELSE IF outcome = "create_failed" THEN [err |-> TRUE, fs |-> fs]
    ELSE IF outcome = "copy_failed"
    THEN [err |-> TRUE,
          fs  |-> WriteFile(fs, dst, [header |-> <<>>, size |-> 0,
                                      build |-> fs[src].build, mode |-> "0644"])]
    ELSE IF outcome = "chmod_failed"
    THEN [err |-> TRUE,
          fs  |-> WriteFile(fs, dst, [fs[src] EXCEPT !.mode = "0644"])]
    ELSE [err |-> FALSE, fs |-> WriteFile(fs, dst, [fs[src] EXCEPT !.mode = "0644"])]

\* copyFile(src, dst): os.Create leaves dst with the default mode until the
\* final os.Chmod(dst, sourceInfo.Mode()) has succeeded
CopyFile(fs, src, dst, outcome) ==
    IF outcome = "open_failed" \/ src \notin DOMAIN fs THEN [err |-> TRUE, fs |-> fs]
    ELSE IF outcome = "create_failed" THEN [err |-> TRUE, fs |-> fs]
    ELSE IF outcome = "copy_failed"
    THEN [err |-> TRUE,
          fs  |-> WriteFile(fs, dst, [header |-> <<>>, size |-> 0,
                                      build |-> fs[src].build, mode |-> "0644"])]
    ELSE IF outcome = "chmod_failed"
    THEN [err |-> TRUE,
          fs  |-> WriteFile(fs, dst, [fs[src] EXCEPT !.mode = "0644"])]
    ELSE [err |-> FALSE, fs |-> WriteFile(fs, dst, fs[src])]

CopyOutcomes == {"ok", "open_failed", "create_failed", "copy_failed", "chmod_failed"}

\* an UpdateBinary that makes the backup before it looks up the URL
UpdateBinary_BackupBeforeLookup ==
    /\ pc = "update"
    /\ LET release == result.LatestRelease[1]
       IN  \E executableOk \in BOOLEAN, outcome \in CopyOutcomes :
             IF ~executableOk
             THEN /\ msgs' = Append(msgs, "no_executable")
                  /\ pc' = "repl"
                  /\ files' = files
             ELSE LET copy == CopyFile(files, execPath,
                                       backupPathOf(execPath, currentVersion), outcome)
                  IN  /\ files' = copy.fs
                      /\ IF copy.err
                         THEN msgs' = Append(msgs, "backup_failed") /\ pc' = "repl"
                         ELSE IF GOOS \notin DOMAIN release.URLs
                         THEN msgs' = Append(msgs, "no_binary_for_platform") /\ pc' = "repl"
                         ELSE msgs' = msgs /\ pc' = "download"
    /\ UNCHANGED <<currentVersion, env, resp, passed, renamed>>
    /\ UNCHANGED resolverVars
    /\ UNCHANGED versionVars

\* UpdateBinary up to the call of DownloadBinary: URL lookup, os.Executable, backup
UpdateBinary ==
    /\ pc = "update"
    /\ LET release == result.LatestRelease[1]
       IN  IF GOOS \notin DOMAIN release.URLs
           THEN /\ msgs' = Append(msgs, "no_binary_for_platform")
                /\ pc' = "repl"
                /\ files' = files
           ELSE \E executableOk \in BOOLEAN, outcome \in CopyOutcomes :
                  IF ~executableOk
                  THEN /\ msgs' = Append(msgs, "no_executable")
                       /\ pc' = "repl"
                       /\ files' = files
                  ELSE LET copy == CopyFile(files, execPath,
                                            backupPathOf(execPath, currentVersion), outcome)
                       IN  /\ files' = copy.fs
                           /\ IF copy.err
                              THEN msgs' = Append(msgs, "backup_failed") /\ pc' = "repl"
                              ELSE msgs' = msgs /\ pc' = "download"
    /\ UNCHANGED <<currentVersion, env, resp, passed, renamed>>
    /\ UNCHANGED resolverVars
    /\ UNCHANGED versionVars

\* DownloadBinary: http.Get(url), the status check and validateContentType.
\* http.Get uses http.DefaultClient, which sets no timeout: when the server
\* never answers the call does not return and the process waits in it
HttpGet ==
    /\ pc = "download"
    /\ \/ /\ resp' = <<>>
          /\ passed' = passed
          /\ msgs' = Append(msgs, "download_failed")
          /\ pc' = "repl"
       \/ /\ resp' = <<>>
          /\ passed' = passed
          /\ msgs' = msgs
          /\ pc' = "waiting"
       \/ \E r \in Responses :
            /\ resp' = <<r>>
            /\ IF r.status # 200
               THEN passed' = passed /\ msgs' = Append(msgs, "download_failed_http") /\ pc' = "repl"
               ELSE IF ~validateContentType(r.contentType)
               THEN passed' = Append(passed, "status") /\ msgs' = msgs /\ pc' = "repl"
               ELSE passed' = passed \o <<"status", "content_type">> /\ msgs' = msgs /\ pc' = "write"
    /\ UNCHANGED <<currentVersion, env, files, renamed>>
    /\ UNCHANGED resolverVars
    /\ UNCHANGED versionVars

\* the file io.Copy leaves at the temp path after writing the whole body
downloadedFile(body) ==
    [header |-> body.header, size |-> body.size, build |-> "candidate", mode |-> "0644"]

\* writeTemporaryFile without the size gate
writeTemporaryFile_NoSizeGate(fs, path, body, outcome) ==
    IF outcome = "create_failed" THEN [ok |-> FALSE, fs |-> fs]
    ELSE IF outcome = "copy_failed"
    THEN [ok |-> FALSE,
          fs |-> RemoveFile(WriteFile(fs, path, [header |-> <<>>, size |-> 0,
                                                 build |-> "candidate", mode |-> "0644"]), path)]
    ELSE [ok |-> TRUE, fs |-> WriteFile(fs, path, downloadedFile(body))]

\* a size gate that fails and leaves the short file where it was written
writeTemporaryFile_KeepsSmallFile(fs, path, body, outcome) ==
    IF outcome = "create_failed" THEN [ok |-> FALSE, fs |-> fs]
    ELSE IF outcome = "copy_failed"
    THEN [ok |-> FALSE,
          fs |-> RemoveFile(WriteFile(fs, path, [header |-> <<>>, size |-> 0,
                                                 build |-> "candidate", mode |-> "0644"]), path)]
    ELSE IF body.size < MinBinarySize
    THEN [ok |-> FALSE, fs |-> WriteFile(fs, path, downloadedFile(body))]
    ELSE [ok |-> TRUE, fs |-> WriteFile(fs, path, downloadedFile(body))]

\* writeTemporaryFile(tmpPath, body): os.Create, io.Copy, size gate
writeTemporaryFile(fs, path, body, outcome) ==
    IF outcome = "create_failed" THEN [ok |-> FALSE, fs |-> fs]
    ELSE IF outcome = "copy_failed"
    THEN [ok |-> FALSE,
          fs |-> RemoveFile(WriteFile(fs, path, [header |-> <<>>, size |-> 0,
                                                 build |-> "candidate", mode |-> "0644"]), path)]
    ELSE IF body.size < MinBinarySize
    THEN [ok |-> FALSE, fs |-> RemoveFile(WriteFile(fs, path, downloadedFile(body)), path)]
    ELSE [ok |-> TRUE, fs |-> WriteFile(fs, path, downloadedFile(body))]

\* DownloadBinary: tmpPath := execPath + ".new"; writeTemporaryFile(tmpPath, resp.Body).
\* When the server stops sending in the middle of the body, io.Copy does not
\* return (no timeout, no deadline on the body): the process waits in it with
\* the temp file created and part of the body written
WriteTemporaryFile ==
    /\ pc = "write"
    /\ \/ \E outcome \in {"create_failed", "copy_failed", "written"} :
            LET w == writeTemporaryFile(files, tmpPathOf(execPath), resp[1].body, outcome)
            IN  /\ files' = w.fs
                /\ IF w.ok
                   THEN passed' = Append(passed, "size") /\ msgs' = msgs /\ pc' = "validate"
                   ELSE passed' = passed /\ msgs' = Append(msgs, "write_failed") /\ pc' = "repl"
       \/ /\ files' = WriteFile(files, tmpPathOf(execPath),
                                [header |-> <<>>, size |-> 0, build |-> "candidate", mode |-> "0644"])
          /\ passed' = passed
          /\ msgs' = msgs
          /\ pc' = "waiting"
    /\ UNCHANGED <<currentVersion, env, resp, renamed>>
    /\ UNCHANGED resolverVars
    /\ UNCHANGED versionVars

\* DownloadBinary: ValidateDownloadedFile(tmpPath); on failure the deferred cleanup runs
ValidateFile ==
    /\ pc = "validate"
    /\ \E openOk \in BOOLEAN :
         IF ValidateDownloadedFile(files, tmpPathOf(execPath), openOk)
         THEN /\ passed' = Append(passed, "signature")
              /\ files' = files
              /\ msgs' = msgs
              /\ pc' = "chmod"
         ELSE /\ passed' = passed
              /\ files' = cleanupTmp(files, execPath)
              /\ msgs' = Append(msgs, "not_an_executable")
              /\ pc' = "repl"
    /\ UNCHANGED <<currentVersion, env, resp, renamed>>
    /\ UNCHANGED resolverVars
    /\ UNCHANGED versionVars

\* DownloadBinary: os.Chmod(tmpPath, 0755)
Chmod ==
    /\ pc = "chmod"
    /\ \E ok \in BOOLEAN :
         IF ok
         THEN /\ passed' = Append(passed, "chmod")
              /\ files' = [files EXCEPT ![tmpPathOf(execPath)].mode = "0755"]
              /\ msgs' = msgs
              /\ pc' = "test"
         ELSE /\ passed' = passed
              /\ files' = cleanupTmp(files, execPath)
              /\ msgs' = Append(msgs, "chmod_failed")
              /\ pc' = "repl"
    /\ UNCHANGED <<currentVersion, env, resp, renamed>>
    /\ UNCHANGED resolverVars
    /\ UNCHANGED versionVars

\* DownloadBinary: TestNewBinary(tmpPath) runs the temp file with --version
TestNewBinary ==
    /\ pc = "test"
    /\ \E exitZero \in BOOLEAN :
         IF exitZero
         THEN /\ passed' = Append(passed, "smoke_test")
              /\ files' = files
              /\ msgs' = msgs
              /\ pc' = "rename"
         ELSE /\ passed' = passed
              /\ files' = cleanupTmp(files, execPath)
              /\ msgs' = Append(msgs, "binary_test_failed")
              /\ pc' = "repl"
    /\ UNCHANGED <<currentVersion, env, resp, renamed>>
    /\ UNCHANGED resolverVars
    /\ UNCHANGED versionVars

\* an UpdateBinary that ignores the outcome of DownloadBinary and exits
Rename_ExitsAnyway ==
    /\ pc = "rename"
    /\ renamed' = TRUE
    /\ \E ok \in BOOLEAN :
         IF ok
         THEN /\ files' = cleanupTmp(RenameFile(files, tmpPathOf(execPath), execPath), execPath)
              /\ msgs' = Append(msgs, "update_complete")
              /\ pc' = "exit0"
         ELSE /\ files' = cleanupTmp(files, execPath)
              /\ msgs' = msgs \o <<"rename_failed", "update_complete">>
              /\ pc' = "exit0"
    /\ UNCHANGED <<currentVersion, env, resp, passed>>
    /\ UNCHANGED resolverVars
    /\ UNCHANGED versionVars

\* DownloadBinary: os.Rename(tmpPath, execPath); on success UpdateBinary
\* prints "Update complete" and calls os.Exit(0)
Rename ==
    /\ pc = "rename"
    /\ renamed' = TRUE
    /\ \E ok \in BOOLEAN :
         IF ok
         THEN /\ files' = cleanupTmp(RenameFile(files, tmpPathOf(execPath), execPath), execPath)
              /\ msgs' = Append(msgs, "update_complete")
              /\ pc' = "exit0"
         ELSE /\ files' = cleanupTmp(files, execPath)
              /\ msgs' = Append(msgs, "rename_failed")
              /\ pc' = "repl"
    /\ UNCHANGED <<currentVersion, env, resp, passed>>
    /\ UNCHANGED resolverVars
    /\ UNCHANGED versionVars

Next ==
    \/ FetchVersionManifest
    \/ FetchFailed
    \/ Resolve
    \/ ResolveAgain
    \/ CheckForUpdates
    \/ UpToDate
    \/ GatedMessage
    \/ promptAndUpdate
    \/ UpdateBinary
    \/ HttpGet
    \/ WriteTemporaryFile
    \/ ValidateFile
    \/ Chmod
    \/ TestNewBinary
    \/ Rename

Spec == Init /\ [][Next]_vars

\* a step of UpdateBinary or DownloadBinary
InstallStep ==
    \/ UpdateBinary
    \/ HttpGet
    \/ WriteTemporaryFile
    \/ ValidateFile
    \/ Chmod
    \/ TestNewBinary
    \/ Rename

\* the process is sequential: once UpdateBinary has been called, the next
\* statement of the install pipeline runs whenever there is one to run
SpecLive == Init /\ [][Next]_vars /\ WF_vars(InstallStep)

(***************************************************************************)
(* Version comparison on its own: parse two texts, then compare them       *)
(***************************************************************************)
Triples ==
    { Ver(<<"1">>, <<"0">>, <<"0">>), Ver(<<"1">>, <<"0">>, <<"2">>),
      Ver(<<"1">>, <<"0">>, <<"1", "0">>), Ver(<<"1">>, <<"2">>, <<"0">>),
      Ver(<<"2">>, <<"0">>, <<"0">>), Ver(<<"0">>, <<"9">>, <<"9">>) }

WellFormedTexts ==
    { prefix \o triple \o suffix :
        prefix \in {<<>>, <<"v">>}, triple \in Triples, suffix \in {<<>>, dashAlpha, dashBeta} }

\* texts of other shapes: signed, missing, extra or non-numeric components,
\* unknown or upper-case suffixes, misplaced suffixes, the untagged build
OtherTexts ==
    { Ver(<<"1">>, <<"-", "2">>, <<"3">>),
      Ver(<<"+", "1">>, <<"0">>, <<"0">>),
      <<"1", ".", "0">>,
      Ver(<<"1">>, <<"0">>, <<"0">>) \o <<".", "0">>,
      Ver(<<"1">>, <<"x">>, <<"0">>),
      Ver(<<"1">>, <<"0">>, <<"0">>) \o <<"-", "A", "L", "P", "H", "A">>,
      Ver(<<"1">>, <<"0">>, <<"0">>) \o <<"-", "r", "c">>,
      Ver(<<"1">>, <<"0">>, <<"0">>) \o dashAlpha \o dashBeta,
      Ver(<<"1">>, <<"0">> \o dashBeta, <<"0">>),
      Ver(<<"0">>, <<"0">>, <<"0">>) \o <<"-", "l", "o", "c", "a", "l">>,
      <<>> }

VersionTexts == WellFormedTexts \cup OtherTexts

InitVersion ==
    /\ pc = "version"
    /\ va \in VersionTexts
    /\ vb \in VersionTexts
    /\ pa = ParseError /\ pb = ParseError
    /\ cmp = [done |-> FALSE, ab |-> FALSE, ba |-> FALSE]
    /\ ret = <<>>
    /\ currentVersion = <<>>
    /\ env = [n \in {"CALC_ALLOW_ALPHA", "CALC_ALLOW_BETA"} |-> <<>>]
    /\ manifest = <<>>
    /\ fetchErr = ""
    /\ result = NoResult
    /\ latest = <<>>
    /\ answer = <<>>
    /\ msgs = <<>>
    /\ files = [p \in {execPath} |-> OrigExecutable]
    /\ resp = <<>>
    /\ passed = <<>>
    /\ renamed = FALSE

\* ParseSemanticVersion applied to both texts
ParseVersions ==
    /\ pc = "version"
    /\ pa' = ParseSemanticVersion(va)
    /\ pb' = ParseSemanticVersion(vb)
    /\ pc' = "parsed"
    /\ UNCHANGED <<currentVersion, env, msgs, va, vb, cmp, ret>>
    /\ UNCHANGED resolverVars
    /\ UNCHANGED installVars

\* a.IsNewerThan(b) and b.IsNewerThan(a) on two parsed versions
CompareVersions ==
    /\ pc = "parsed"
    /\ ~pa.err /\ ~pb.err
    /\ cmp' = [done |-> TRUE,
               ab   |-> IsNewerThan(pa.sv[1], pb.sv[1]),
               ba   |-> IsNewerThan(pb.sv[1], pa.sv[1])]
    /\ pc' = "compared"
    /\ UNCHANGED <<currentVersion, env, msgs, va, vb, pa, pb, ret>>
    /\ UNCHANGED resolverVars
    /\ UNCHANGED installVars

NextVersion ==
    \/ ParseVersions
    \/ CompareVersions

SpecVersion == InitVersion /\ [][NextVersion]_vars

(***************************************************************************)
(* Permission flags on their own: set both variables, then read them       *)
(***************************************************************************)
\* values a user may give CALC_ALLOW_ALPHA / CALC_ALLOW_BETA
FlagValues ==
    { <<>>, <<"0">>, <<"1">>, <<"0", "0">>,
      <<"f", "a", "l", "s", "e">>, <<"F", "A", "L", "S", "E">>, <<"F", "a", "l", "s", "e">>,
      <<"t", "r", "u", "e">>, <<"Y", "E", "S">>, <<"n", "o">>,
      <<" ">>, <<" ", "0">>, <<" ", "f", "a", "l", "s", "e", " ">>, <<" ", "1", " ">> }

InitFlags ==
    /\ pc = "flags"
    /\ env \in [{"CALC_ALLOW_ALPHA", "CALC_ALLOW_BETA"} -> FlagValues]
    /\ ret = <<>>
    /\ currentVersion = <<>>
    /\ manifest = <<>>
    /\ fetchErr = ""
    /\ result = NoResult
    /\ latest = <<>>
    /\ answer = <<>>
    /\ msgs = <<>>
    /\ files = [p \in {execPath} |-> OrigExecutable]
    /\ resp = <<>>
    /\ passed = <<>>
    /\ renamed = FALSE
    /\ va = <<>> /\ vb = <<>> /\ pa = ParseError /\ pb = ParseError
    /\ cmp = [done |-> FALSE, ab |-> FALSE, ba |-> FALSE]

\* allowAlpha := isEnvVarTrue("CALC_ALLOW_ALPHA"); allowBeta := isEnvVarTrue("CALC_ALLOW_BETA")
ReadFlags ==
    /\ pc = "flags"
    /\ ret' = [n \in {"CALC_ALLOW_ALPHA", "CALC_ALLOW_BETA"} |-> isEnvVarTrue(env, n)]
    /\ pc' = "flags_read"
    /\ UNCHANGED <<currentVersion, env, msgs, va, vb, pa, pb, cmp>>
    /\ UNCHANGED resolverVars
    /\ UNCHANGED installVars

NextFlags == ReadFlags

SpecFlags == InitFlags /\ [][NextFlags]_vars

(***************************************************************************)
(* Signature validation on its own: a file on disk, then IsValidExecutable *)
(***************************************************************************)
\* the first bytes of files a download may leave: the known signatures,
\* near misses, other content, and files shorter than four bytes
Headers ==
    { ELF, MachO32, MachO32Rev, MachO64, MachO64Rev, PE, HTML,
      <<77, 90, 0, 0>>, <<127, 69, 76, 71>>, <<69, 76, 70, 127>>,
      <<254, 237, 250, 208>>, <<0, 0, 0, 0>>, <<35, 33, 47, 98>>,
      <<72, 101, 108, 108>>, <<90, 77, 0, 0>>,
      <<>>, <<127, 69>>, <<77, 90>>, <<77, 90, 144>>, <<127, 69, 76>> }

\* a file of fewer than four bytes is its header; a longer one has a
\* four-byte header and 4, 16 or 2048 bytes in all
CandidateFiles ==
    { [header |-> h, size |-> n, build |-> "candidate", mode |-> "0644"] :
        h \in Headers, n \in {0, 2, 3, 4, 16, 2048} }

InitSignature ==
    /\ pc = "signature"
    /\ \E file \in CandidateFiles :
         /\ IF Len(file.header) < 4 THEN file.size = Len(file.header) ELSE file.size >= 4
         /\ files = WriteFile([p \in {execPath} |-> OrigExecutable], tmpPathOf(execPath), file)
    /\ ret = <<>>
    /\ currentVersion = <<>>
    /\ env = [n \in {"CALC_ALLOW_ALPHA", "CALC_ALLOW_BETA"} |-> <<>>]
    /\ manifest = <<>>
    /\ fetchErr = ""
    /\ result = NoResult
    /\ latest = <<>>
    /\ answer = <<>>
    /\ msgs = <<>>
    /\ resp = <<>>
    /\ passed = <<>>
    /\ renamed = FALSE
    /\ va = <<>> /\ vb = <<>> /\ pa = ParseError /\ pb = ParseError
    /\ cmp = [done |-> FALSE, ab |-> FALSE, ba |-> FALSE]

\* IsValidExecutable(tmpPath), os.Open succeeding or failing
CheckSignature ==
    /\ pc = "signature"
    /\ \E openOk \in BOOLEAN :
         ret' = [openOk |-> openOk,
                 valid  |-> IsValidExecutable(files, tmpPathOf(execPath), openOk)]
    /\ pc' = "signature_checked"
    /\ UNCHANGED <<currentVersion, env, msgs, va, vb, pa, pb, cmp>>
    /\ UNCHANGED resolverVars
    /\ UNCHANGED installVars

NextSignature == CheckSignature

SpecSignature == InitSignature /\ [][NextSignature]_vars

(***************************************************************************)
(* Properties                                                              *)
(***************************************************************************)
\* the channel a version text names by its suffix
TagChannel(text) ==
    IF HasSuffix(text, dashAlpha) THEN "alpha"
    ELSE IF HasSuffix(text, dashBeta) THEN "beta"
    ELSE "stable"

Parses(text) == ~ParseSemanticVersion(text).err

SemVerOf(text) == ParseSemanticVersion(text).sv[1]

AllowAlpha == isEnvVarTrue(env, "CALC_ALLOW_ALPHA")

AllowBeta == isEnvVarTrue(env, "CALC_ALLOW_BETA")

\* entry i of the fetched manifest is a parsable release of the installation's
\* channel (as the resolver assigns channels to entries) that is newer than
\* the current version
Candidate(i) ==
    LET release == manifest[1][i]
    IN  /\ Parses(release.Version)
        /\ releaseChannelOf(release) = TagChannel(currentVersion)
        /\ IsNewerThan(SemVerOf(release.Version), SemVerOf(currentVersion))

UpdateStarted == \E i \in 1..Len(msgs) : msgs[i] = "updating"

LastMsg == IF msgs = <<>> THEN "" ELSE msgs[Len(msgs)]

\* C1: channel isolation by version suffix. Whenever CheckForUpdatesWithResult
\* or FindLatestEligibleRelease returns a release, the channel named by the
\* suffix of the release's version text equals the channel named by the suffix
\* of the current version.
C1_ChannelIsolation ==
    /\ (pc = "resolved" /\ result.HasUpdate)
         => TagChannel(result.LatestRelease[1].Version) = TagChannel(currentVersion)
    /\ (pc = "found" /\ latest # <<>>)
         => TagChannel(latest[1].Version) = TagChannel(currentVersion)

HoldsNewestOfChannel == \A i \in 1..Len(manifest[1]) : ~Candidate(i)

C4_ExecutableUntouched ==
    (pc = "repl" /\ UpdateStarted)
        => execPath \in DOMAIN files /\ files[execPath] = OrigExecutable

\* C4 witness: the download was written to disk and then failed the smoke test
C4_Witness ==
    /\ pc = "repl"
    /\ UpdateStarted
    /\ LastMsg = "binary_test_failed"
    /\ files[execPath] = OrigExecutable

\* C5: install atomicity for the temp file. After DownloadBinary has failed
\* at any stage, a failed rename included, nothing exists at execPath + ".new".
C5_NoTempFileLeft ==
    (pc = "repl" /\ UpdateStarted) => (execPath \o <<".new">>) \notin DOMAIN files

\* C5 witness: the rename was attempted and failed
C5_Witness ==
    /\ pc = "repl"
    /\ renamed
    /\ LastMsg = "rename_failed"
    /\ (execPath \o <<".new">>) \notin DOMAIN files

ValidationOrder == <<"status", "size", "signature", "chmod", "smoke_test">>

IsValidationStage(stage) == stage # "content_type"

\* C6: validated install only. The rename onto the executable is attempted
\* only after, in this order, status 200, at least 1024 bytes written, a
\* recognised magic signature, a successful chmod and a passing smoke test.
C6_ValidatedInstallOnly ==
    renamed =>
        /\ resp # <<>>
        /\ resp[1].status = 200
        /\ resp[1].body.size >= 1024
        /\ resp[1].body.header \in {ELF, MachO32, MachO32Rev, MachO64, MachO64Rev}
             \/ SubSeq(resp[1].body.header, 1, 2) = <<77, 90>>
        /\ SelectSeq(passed, IsValidationStage) = ValidationOrder

\* C6 witness: an install that completed
C6_Witness ==
    /\ renamed
    /\ pc = "exit0"
    /\ files[execPath].build = "candidate"

\* C7: gating rule. IsGated is true exactly when there is an update, the
\* current channel is alpha or beta, and that channel's own flag is not
\* granted; stable is never gated and the other channel's flag does not ungate.
C7_GatingRule ==
    pc = "resolved" =>
        (result.IsGated <=>
            /\ result.HasUpdate
            /\ \/ TagChannel(currentVersion) = "alpha" /\ ~AllowAlpha
               \/ TagChannel(currentVersion) = "beta" /\ ~AllowBeta)

\* C7 witness: an alpha installation with an update, holding only the beta flag
C7_Witness ==
    /\ pc = "resolved"
    /\ TagChannel(currentVersion) = "alpha"
    /\ result.HasUpdate
    /\ AllowBeta /\ ~AllowAlpha
    /\ result.IsGated

\* C8: permission needed for pre-release updates. FindLatestEligibleRelease
\* returns nil for an alpha installation without CALC_ALLOW_ALPHA and for a
\* beta installation without CALC_ALLOW_BETA, whatever the manifest and the
\* other flag; for a stable installation the result is the same under every
\* setting of the two flags.
C8_PermissionNeeded ==
    pc = "found" =>
        /\ (TagChannel(currentVersion) = "alpha" /\ ~AllowAlpha) => latest = <<>>
        /\ (TagChannel(currentVersion) = "beta" /\ ~AllowBeta) => latest = <<>>
        /\ TagChannel(currentVersion) = "stable"
             => \A e \in Environments :
                  FindLatestEligibleRelease(e, manifest[1], currentVersion) = latest

\* C8 witness: an alpha installation with a newer alpha entry on offer,
\* holding only the beta flag, gets nil
C8_Witness ==
    /\ pc = "found"
    /\ TagChannel(currentVersion) = "alpha"
    /\ AllowBeta /\ ~AllowAlpha
    /\ \E i \in 1..Len(manifest[1]) : Candidate(i)
    /\ latest = <<>>

\* the versions ParseSemanticVersion produces from the modelled texts
ParsedVersions == { SemVerOf(text) : text \in { t \in VersionTexts : Parses(t) } }

SameVersion(a, b) ==
    /\ a.Major = b.Major
    /\ a.Minor = b.Minor
    /\ a.Patch = b.Patch
    /\ a.PreRelease = b.PreRelease

ExactlyOne(x, y, z) == (x /\ ~y /\ ~z) \/ (~x /\ y /\ ~z) \/ (~x /\ ~y /\ z)

\* C9: total order. For parsed versions a, b exactly one of a newer than b,
\* b newer than a, a equal to b holds, and IsNewerThan is transitive.
C9_TotalOrder ==
    cmp.done =>
        /\ ExactlyOne(cmp.ab, cmp.ba, SameVersion(pa.sv[1], pb.sv[1]))
        /\ \A c \in ParsedVersions :
             (cmp.ab /\ IsNewerThan(pb.sv[1], c)) => IsNewerThan(pa.sv[1], c)

\* C9 witness: an alpha and a beta of the same numeric version were compared
C9_Witness ==
    /\ cmp.done
    /\ pa.sv[1].Major = pb.sv[1].Major
    /\ pa.sv[1].Minor = pb.sv[1].Minor
    /\ pa.sv[1].Patch = pb.sv[1].Patch
    /\ pa.sv[1].IsAlpha /\ pb.sv[1].IsBeta
    /\ cmp.ba /\ ~cmp.ab

TagRank(sv) == IF sv.PreRelease = "" THEN 2 ELSE IF sv.PreRelease = "beta" THEN 1 ELSE 0

\* major, then minor, then patch, then stable > beta > alpha
Precedes(a, b) ==
    \/ a.Major > b.Major
    \/ a.Major = b.Major /\ a.Minor > b.Minor
    \/ a.Major = b.Major /\ a.Minor = b.Minor /\ a.Patch > b.Patch
    \/ a.Major = b.Major /\ a.Minor = b.Minor /\ a.Patch = b.Patch /\ TagRank(a) > TagRank(b)

\* C10: version precedence. IsNewerThan orders by major, minor, patch
\* numerically whatever the tags, and by stable > beta > alpha only when the
\* numeric triples are equal; equal triple and tag is not newer.
C10_VersionPrecedence ==
    cmp.done =>
        /\ cmp.ab = Precedes(pa.sv[1], pb.sv[1])
        /\ cmp.ba = Precedes(pb.sv[1], pa.sv[1])

\* C10 witness: an alpha with the greater patch number was found newer than
\* a stable version
C10_Witness ==
    /\ cmp.done
    /\ pa.sv[1].Major = pb.sv[1].Major
    /\ pa.sv[1].Minor = pb.sv[1].Minor
    /\ pa.sv[1].Patch > pb.sv[1].Patch
    /\ pa.sv[1].IsAlpha /\ pb.sv[1].PreRelease = ""
    /\ cmp.ab

\* C11: fail-soft on the local version. When the current version text does
\* not parse, CheckForUpdatesWithResult reports no update, no target and no
\* gating, and FindLatestEligibleRelease returns nil, whatever the manifest
\* and the permission flags.
C11_FailSoftLocalVersion ==
    ParseSemanticVersion(currentVersion).err =>
        /\ pc = "resolved" =>
             ~result.HasUpdate /\ result.LatestRelease = <<>> /\ ~result.IsGated
        /\ pc = "found" => latest = <<>>

\* C11 witness: an untagged build resolved against a manifest that holds a
\* parsable release, with both permission flags set
C11_Witness ==
    /\ pc = "resolved"
    /\ ParseSemanticVersion(currentVersion).err
    /\ AllowAlpha /\ AllowBeta
    /\ \E i \in 1..Len(manifest[1]) : Parses(manifest[1][i].Version)
    /\ ~result.HasUpdate

ParsableEntry(release) == Parses(release.Version)

\* the manifest without the entries whose version text fails to parse
ParsableOnly(releases) == SelectSeq(releases, ParsableEntry)

\* C12: malformed catalog entries are skipped. The outcome of
\* CheckForUpdatesWithResult and of FindLatestEligibleRelease on the fetched
\* manifest is the outcome on the same manifest with every unparsable entry
\* removed, and a returned release always has a parsable version.
C12_MalformedEntriesSkipped ==
    /\ pc = "resolved" =>
         /\ result = CheckForUpdatesWithResult(env, ParsableOnly(manifest[1]), currentVersion)
         /\ result.HasUpdate => Parses(result.LatestRelease[1].Version)
    /\ pc = "found" =>
         /\ latest = FindLatestEligibleRelease(env, ParsableOnly(manifest[1]), currentVersion)
         /\ latest # <<>> => Parses(latest[1].Version)

\* C12 witness: the candidate found before an unparsable entry is still the
\* target after the scan has passed that entry
C12_Witness ==
    /\ pc = "resolved"
    /\ Len(manifest[1]) = 2
    /\ Candidate(1)
    /\ ~Parses(manifest[1][2].Version)
    /\ result.HasUpdate
    /\ result.LatestRelease[1] = manifest[1][1]

\* the manifests that hold the same entries in another order
Permuted(releases) ==
    { [i \in 1..Len(releases) |-> releases[p[i]]] : p \in Permutations(1..Len(releases)) }

\* the version text of the target, or nothing when there is no update
TargetText(res) == IF res.HasUpdate THEN <<res.LatestRelease[1].Version>> ELSE <<>>

\* the version the target's text parses to, or nothing when there is no update
TargetSemVer(res) == IF res.HasUpdate THEN <<SemVerOf(res.LatestRelease[1].Version)>> ELSE <<>>

Printed(msg) == \E i \in 1..Len(msgs) : msgs[i] = msg

\* nothing of the install pipeline has happened: no backup, no download,
\* no temp file, the executable as it was
NothingInstalled ==
    /\ files = [p \in {execPath} |-> OrigExecutable]
    /\ resp = <<>>
    /\ passed = <<>>
    /\ ~renamed

C16_ExitOnlyAfterInstall ==
    /\ pc = "exit0" <=> (renamed /\ files[execPath] # OrigExecutable)
    /\ pc = "exit0" => LastMsg = "update_complete"
    /\ LastMsg \in {"up_to_date", "gated", "cancelled", "warning",
                    "no_binary_for_platform", "no_executable", "backup_failed",
                    "download_failed", "download_failed_http", "write_failed",
                    "not_an_executable", "chmod_failed", "binary_test_failed",
                    "rename_failed"} => pc = "repl"
    /\ Printed("no_internet") => pc \in {"fetched", "repl"}

\* C16 witness: the process has exited after the install, the backup of the
\* replaced executable beside it
C16_Witness ==
    /\ pc = "exit0"
    /\ LastMsg = "update_complete"
    /\ backupPathOf(execPath, currentVersion) \in DOMAIN files
    /\ files[execPath] # OrigExecutable

\* FetchVersionManifest has returned without a manifest: with an error, or
\* with nil and nil after the no-internet warning
NoManifest == fetchErr # "" \/ Printed("no_internet")

\* C17: manifest failures are not fatal. FetchVersionManifest returns either
\* a manifest with at least one release and no error, or no manifest with an
\* error (request error, status other than 200, malformed JSON, empty release
\* list), or no manifest and no error after a network failure; without a
\* manifest CheckForUpdate resolves nothing, prompts for nothing, installs
\* nothing and returns to main.
C17_ManifestFailureNotFatal ==
    /\ pc = "fetched" =>
         \/ manifest # <<>> /\ Len(manifest[1]) > 0 /\ ~NoManifest
         \/ manifest = <<>> /\ msgs = <<>>
              /\ fetchErr \in {"no manifest found", "no manifest found (status code)",
                               "malformed manifest", "no releases found"}
         \/ manifest = <<>> /\ fetchErr = "" /\ msgs = <<"no_internet">>
    /\ NoManifest =>
         /\ manifest = <<>>
         /\ result = NoResult /\ latest = <<>>
         /\ answer = <<>> /\ ~Printed("prompt")
         /\ NothingInstalled
         /\ pc \in {"fetched", "repl"}
         /\ pc = "repl" => msgs = (IF fetchErr # "" THEN <<"warning">> ELSE <<"no_internet">>)

\* C17 witness: after a network failure, with neither manifest nor error,
\* CheckForUpdate has returned to main
C17_Witness ==
    /\ pc = "repl"
    /\ manifest = <<>> /\ fetchErr = ""
    /\ msgs = <<"no_internet">>
    /\ NothingInstalled

\* a parse result is all or nothing: an error without a version, or a version
\* with integer components and consistent prerelease fields
Atomic(p) ==
    IF p.err THEN p.sv = <<>>
    ELSE /\ Len(p.sv) = 1
         /\ p.sv[1].Major \in Int /\ p.sv[1].Minor \in Int /\ p.sv[1].Patch \in Int
         /\ p.sv[1].PreRelease \in {"", "alpha", "beta"}
         /\ p.sv[1].PreRelease = "alpha" <=> p.sv[1].IsAlpha
         /\ p.sv[1].PreRelease = "beta" <=> p.sv[1].IsBeta
         /\ ~(p.sv[1].IsAlpha /\ p.sv[1].IsBeta)

Numerals == { <<"0">>, <<"1">>, <<"2">>, <<"9">>, <<"1", "0">> }

\* when the text is prefix, three numerals, suffix, the result holds the
\* values of the three numerals and the tag of the suffix
SetFromText(text, p) ==
    \A prefix \in {<<>>, <<"v">>}, a \in Numerals, b \in Numerals, c \in Numerals,
       suffix \in {<<>>, dashAlpha, dashBeta} :
        text = prefix \o Ver(a, b, c) \o suffix =>
            /\ ~p.err
            /\ p.sv[1].Major = DecimalValue(a)
            /\ p.sv[1].Minor = DecimalValue(b)
            /\ p.sv[1].Patch = DecimalValue(c)
            /\ p.sv[1].IsAlpha = (suffix = dashAlpha)
            /\ p.sv[1].IsBeta = (suffix = dashBeta)

\* texts with a missing, an extra or a non-numeric component, with an
\* unknown suffix, or with a suffix out of place
MalformedTexts ==
    { <<>>,
      <<"1", ".", "0">>,
      Ver(<<"1">>, <<"0">>, <<"0">>) \o <<".", "0">>,
      Ver(<<"1">>, <<"x">>, <<"0">>),
      Ver(<<"1">>, <<"0">>, <<"0">>) \o <<"-", "r", "c">>,
      Ver(<<"0">>, <<"0">>, <<"0">>) \o <<"-", "l", "o", "c", "a", "l">>,
      Ver(<<"1">>, <<"0">>, <<"0">>) \o dashAlpha \o dashBeta,
      Ver(<<"1">>, <<"0">> \o dashBeta, <<"0">>) }

\* C18: parse is atomic. ParseSemanticVersion returns either an error and no
\* version, or a version whose major, minor and patch come from the text and
\* whose prerelease fields agree (PreRelease = "alpha" iff IsAlpha,
\* PreRelease = "beta" iff IsBeta, never IsAlpha and IsBeta together); a text
\* with a missing, extra or non-numeric component or an unknown suffix yields
\* the error.
C18_ParseAtomic ==
    pc \in {"parsed", "compared"} =>
        /\ Atomic(pa) /\ Atomic(pb)
        /\ SetFromText(va, pa) /\ SetFromText(vb, pb)
        /\ va \in MalformedTexts => pa.err
        /\ vb \in MalformedTexts => pb.err

\* C18 witness: of the two texts parsed, the one with the unknown suffix -rc
\* gave the error and v1.0.10-beta gave a beta version with patch 10
C18_Witness ==
    /\ pc = "parsed"
    /\ va = Ver(<<"1">>, <<"0">>, <<"0">>) \o <<"-", "r", "c">>
    /\ pa.err /\ pa.sv = <<>>
    /\ vb = <<"v">> \o Ver(<<"1">>, <<"0">>, <<"1", "0">>) \o dashBeta
    /\ ~pb.err
    /\ pb.sv[1].Patch = 10 /\ pb.sv[1].IsBeta /\ pb.sv[1].PreRelease = "beta"

dashAlphaUpper == <<"-", "A", "L", "P", "H", "A">>

\* C19: case-insensitive suffix. When one text ends in -alpha and parses, and
\* the other is the same text with the suffix written -ALPHA, both parse to
\* the same alpha version.
C19_SuffixAnyCase ==
    (/\ pc = "parsed"
     /\ HasSuffix(va, dashAlpha)
     /\ ~pa.err
     /\ vb = TrimSuffix(va, dashAlpha) \o dashAlphaUpper)
        => pb = pa

\* a dot-separated component of the text starts with a sign
HasSignedComponent(text) ==
    LET parts == Split(TrimPrefix(text, <<"v">>), ".")
    IN  \E i \in 1..Len(parts) : parts[i] # <<>> /\ parts[i][1] \in {"+", "-"}

NonNegative(p) ==
    ~p.err => p.sv[1].Major >= 0 /\ p.sv[1].Minor >= 0 /\ p.sv[1].Patch >= 0

\* C20: non-negative components. Every version ParseSemanticVersion returns
\* has major, minor and patch of at least 0, and a text with a sign-prefixed
\* component, such as 1.-2.3 or +1.0.0, yields the error.
C20_NonNegativeComponents ==
    pc = "parsed" =>
        /\ NonNegative(pa) /\ NonNegative(pb)
        /\ HasSignedComponent(va) => pa.err
        /\ HasSignedComponent(vb) => pb.err

FlagNames == {"CALC_ALLOW_ALPHA", "CALC_ALLOW_BETA"}

\* the text spells false in some letter case
SpellsFalse(value) ==
    /\ Len(value) = 5
    /\ value[1] \in {"f", "F"} /\ value[2] \in {"a", "A"} /\ value[3] \in {"l", "L"}
    /\ value[4] \in {"s", "S"} /\ value[5] \in {"e", "E"}

BodyWritten ==
    /\ resp # <<>>
    /\ Printed("updating")
    /\ \E i \in 1..Len(passed) : passed[i] = "content_type"
    /\ pc \notin {"write", "waiting"}

\* C22: size gate. When fewer than 1024 bytes were written, writeTemporaryFile
\* fails, the temp file is gone and no install follows; when it succeeds,
\* 1024 bytes or more were written and the temp file holds the complete body;
\* with no I/O error it succeeds exactly when the body has 1024 bytes or more.
C22_SizeGate ==
    /\ (BodyWritten /\ resp[1].body.size < 1024) =>
         /\ pc = "repl" /\ LastMsg = "write_failed"
         /\ tmpPathOf(execPath) \notin DOMAIN files
         /\ ~renamed /\ files[execPath] = OrigExecutable
    /\ pc = "validate" =>
         /\ resp[1].body.size >= 1024
         /\ tmpPathOf(execPath) \in DOMAIN files
         /\ files[tmpPathOf(execPath)].size = resp[1].body.size
         /\ files[tmpPathOf(execPath)].header = resp[1].body.header
    /\ (BodyWritten /\ LastMsg = "write_failed") =>
         tmpPathOf(execPath) \notin DOMAIN files /\ pc = "repl" /\ ~renamed
    /\ pc = "write" =>
         LET w == writeTemporaryFile(files, tmpPathOf(execPath), resp[1].body, "written")
         IN  w.ok = (resp[1].body.size >= 1024)

\* C22 witness: a body of 1023 bytes was written and rejected, and the temp
\* file is gone
C22_Witness ==
    /\ BodyWritten
    /\ resp[1].body.size = 1023
    /\ LastMsg = "write_failed"
    /\ tmpPathOf(execPath) \notin DOMAIN files
    /\ files[execPath] = OrigExecutable

\* the four-byte and two-byte signatures the claim lists
StartsWithSignature(header) ==
    \/ Len(header) >= 4 /\ SubSeq(header, 1, 4) \in
         { <<127, 69, 76, 70>>, <<254, 237, 250, 206>>, <<206, 250, 237, 254>>,
           <<254, 237, 250, 207>>, <<207, 250, 237, 254>> }
    \/ Len(header) >= 2 /\ SubSeq(header, 1, 2) = <<77, 90>>

\* C23: signature validation. IsValidExecutable returns true exactly when the
\* file could be opened and read, has at least 4 bytes, and starts with the
\* ELF signature, one of the four Mach-O signatures or the PE signature 4D 5A,
\* on whatever platform the updater runs; every other content fails.
C23_SignatureValidation ==
    pc = "signature_checked" =>
        LET file == files[tmpPathOf(execPath)]
        IN  ret.valid = (ret.openOk /\ file.size >= 4 /\ StartsWithSignature(file.header))

\* C23 witness: on Linux a readable file that starts with the PE signature
\* passed the validation
C23_Witness ==
    /\ pc = "signature_checked"
    /\ GOOS = "linux"
    /\ ret.openOk
    /\ files[tmpPathOf(execPath)].header = PE
    /\ ret.valid

Passed(stage) == \E i \in 1..Len(passed) : passed[i] = stage

\* C24: content type is advisory. Whatever Content-Type a response with
\* status 200 declares, empty and text/html included, validateContentType
\* lets it pass: the download goes on to the temp-file write in the same
\* state but for the header, and a failure that follows is the failure of a
\* later stage, which has printed its message.
C24_ContentTypeAdvisory ==
    (resp # <<>> /\ resp[1].status = 200) =>
        /\ Passed("status") /\ Passed("content_type")
        /\ pc = "write" => passed = <<"status", "content_type">> /\ LastMsg = "updating"
        /\ pc = "repl" => LastMsg \in {"write_failed", "not_an_executable", "chmod_failed",
                                       "binary_test_failed", "rename_failed"}

\* C24 witness: a binary served as text/html was installed
C24_Witness ==
    /\ resp # <<>>
    /\ resp[1].contentType = "text/html"
    /\ resp[1].status = 200
    /\ pc = "exit0"
    /\ files[execPath].build = "candidate"

\* the backup beside the executable holds the bytes and the permission bits
\* of the executable that was installed
BackupComplete ==
    /\ backupPathOf(execPath, currentVersion) \in DOMAIN files
    /\ files[backupPathOf(execPath, currentVersion)] = OrigExecutable

\* C25: backup precedes everything destructive. The download, and with it
\* any temp file and the rename, happens only after the current executable
\* was copied, bytes and permission bits, to execPath.<currentVersion>.bak;
\* when the copy fails no download is attempted; after a later failure of
\* the pipeline the backup is still there.
C25_BackupFirst ==
    /\ (\/ pc \in {"download", "write", "validate", "chmod", "test", "rename", "exit0"}
        \/ resp # <<>> \/ passed # <<>> \/ renamed
        \/ tmpPathOf(execPath) \in DOMAIN files
        \/ files[execPath] # OrigExecutable) => BackupComplete
    /\ LastMsg = "backup_failed" =>
         /\ pc = "repl"
         /\ resp = <<>> /\ passed = <<>> /\ ~renamed
         /\ tmpPathOf(execPath) \notin DOMAIN files
         /\ files[execPath] = OrigExecutable
    /\ LastMsg \in {"download_failed", "download_failed_http", "write_failed",
                    "not_an_executable", "chmod_failed", "binary_test_failed",
                    "rename_failed"} => BackupComplete

\* C25 witness: the download was rejected at the signature stage and the
\* backup made before it is in place
C25_Witness ==
    /\ pc = "repl"
    /\ LastMsg = "not_an_executable"
    /\ BackupComplete
    /\ files[execPath] = OrigExecutable

\* the release handed to UpdateBinary has no URL for the running platform
PlatformUnsupported == GOOS \notin DOMAIN result.LatestRelease[1].URLs

\* C26: unsupported platform is terminal. When the URL map of the release has
\* no entry for the running platform, UpdateBinary reports it and returns
\* before any side effect: no backup file, no HTTP request, no temp file, the
\* executable untouched; and that report is made in no other case.
C26_UnsupportedPlatform ==
    /\ (UpdateStarted /\ pc # "update" /\ PlatformUnsupported) =>
         /\ pc = "repl"
         /\ LastMsg = "no_binary_for_platform"
         /\ NothingInstalled
         /\ backupPathOf(execPath, currentVersion) \notin DOMAIN files
    /\ Printed("no_binary_for_platform") => (UpdateStarted /\ PlatformUnsupported)

\* C26 witness: the user accepted a release that has a Windows binary only,
\* and UpdateBinary returned with nothing done
C26_Witness ==
    /\ pc = "repl"
    /\ LastMsg = "no_binary_for_platform"
    /\ DOMAIN result.LatestRelease[1].URLs = {"windows"}
    /\ DOMAIN files = {execPath}
    /\ files[execPath] = OrigExecutable

\* C27: bounded download. Once the install pipeline is at the binary fetch
\* it always comes to an end, exit after the install or return to main after
\* a failure, also when the download server never answers or stops sending
\* in the middle of the body.
C27_BoundedDownload == (pc = "download") ~> (pc \in {"repl", "exit0"})

\* the channel the manifest flags give an entry: alpha if isAlpha, else beta
\* if isBeta, else stable
FlagChannel(release) ==
    IF release.IsAlpha THEN "alpha" ELSE IF release.IsBeta THEN "beta" ELSE "stable"

\* C28: flag-based channel match. A release returned by
\* CheckForUpdatesWithResult or FindLatestEligibleRelease has the flag channel
\* of the current version's channel, also when its flags disagree with the
\* suffix of its version text.
C28_FlagChannelMatch ==
    /\ (pc = "resolved" /\ result.HasUpdate)
         => FlagChannel(result.LatestRelease[1]) = TagChannel(currentVersion)
    /\ (pc = "found" /\ latest # <<>>)
         => FlagChannel(latest[1]) = TagChannel(currentVersion)

\* C28 witness: an alpha installation was given the entry v1.0.3-beta, which
\* carries both flags and so counts as alpha
C28_Witness ==
    /\ pc = "found"
    /\ latest # <<>>
    /\ TagChannel(currentVersion) = "alpha"
    /\ latest[1].IsAlpha /\ latest[1].IsBeta
    /\ TagChannel(latest[1].Version) = "beta"

\* a release pointer and an UpdateCheckResult name the same outcome: a
\* release on one side exactly when the other has an ungated update, and then
\* with the same version text
SameOutcome(release, res) ==
    /\ release # <<>> <=> (res.HasUpdate /\ ~res.IsGated)
    /\ release # <<>> => release[1].Version = res.LatestRelease[1].Version

\* C29: the two resolvers agree. On the fetched manifest, with the current
\* version and the flags of the process, FindLatestEligibleRelease returns a
\* release exactly when CheckForUpdatesWithResult reports HasUpdate=true and
\* IsGated=false, and then both name the same version text.
C29_ResolversAgree ==
    /\ pc = "found" =>
         SameOutcome(latest, CheckForUpdatesWithResult(env, manifest[1], currentVersion))
    /\ pc = "resolved" =>
         SameOutcome(FindLatestEligibleRelease(env, manifest[1], currentVersion), result)

\* C29 witness: CheckForUpdatesWithResult reported a gated beta update, for
\* which FindLatestEligibleRelease returns nothing
C29_Witness ==
    /\ pc = "resolved"
    /\ result.HasUpdate /\ result.IsGated
    /\ result.CurrentChannel = "beta"
    /\ AllowAlpha /\ ~AllowBeta
    /\ FindLatestEligibleRelease(env, manifest[1], currentVersion) = <<>>

\* C30: update reaches a fixpoint in one step. When CheckForUpdatesWithResult
\* returns an ungated target for the current version, a second check of the
\* same manifest under the same flags, with the target's version text as the
\* current version, returns HasUpdate=false.
C30_FixpointAfterInstall ==
    (pc = "resolved" /\ result.HasUpdate /\ ~result.IsGated) =>
        ~CheckForUpdatesWithResult(env, manifest[1], result.LatestRelease[1].Version).HasUpdate

====
